---- MODULE Spec2Model ----
(***************************************************************************)
(* Model of backend/get_transcript.py: a command-line driver that fetches  *)
(* a video's transcript from the transcript provider (first for ['en'],    *)
(* then for ['en-US','en-GB']) and prints one JSON line per entry.         *)
(*                                                                         *)
(* The provider is the environment: for the video of the invocation it     *)
(* answers each of the two language requests either with a finite sequence *)
(* of entries or by raising an exception (a subclass of Exception, as all  *)
(* of the provider's errors are).  stdout and stderr are append-only       *)
(* sequences of lines.  An entry is the dict the provider hands out; an    *)
(* entry that json.dumps cannot serialise makes the print loop raise.      *)
(* A finished process may be invoked again with the same argument vector   *)
(* against the same provider; the outcomes of earlier runs are kept in     *)
(* history, which the program itself can neither read nor write.           *)
(***************************************************************************)
EXTENDS Integers, Sequences, FiniteSets, TLC

VARIABLES argv, provider, pc, video_id, transcript, e, idx,
          stdout, stderr, status, calls, history

vars == <<argv, provider, pc, video_id, transcript, e, idx,
          stdout, stderr, status, calls, history>>

(* ------------------------------ bounds --------------------------------- *)
MaxLen == 2      \* longest transcript the provider returns
MaxArgs == 2     \* most command-line arguments after the script name
MaxRuns == 2     \* invocations observed one after the other

(* ------------------------- values of the model ------------------------- *)
ScriptName == "get_transcript.py"

Args == {"dQw4w9WgXcQ", "extra"}

\* sys.argv: the script name followed by 0..MaxArgs arguments
ArgVectors ==
    { <<ScriptName>> \o a : a \in UNION { [1..n -> Args] : n \in 0..MaxArgs } }

\* the two language lists the program asks for
EN == <<"en">>
EN_VARIANTS == <<"en-US", "en-GB">>
Requests == {EN, EN_VARIANTS}

\* transcript entries; kind "object" is a value json.dumps has no encoding for
Entries ==
    { [kind |-> "dict", text |-> "hello", start |-> 0, duration |-> 2],
      [kind |-> "dict", text |-> "world", start |-> 2, duration |-> 3],
      [kind |-> "object", text |-> "", start |-> 0, duration |-> 0] }

Transcripts == UNION { [1..n -> Entries] : n \in 0..MaxLen }

\* exceptions the provider raises; str(e) is the msg field
Exceptions ==
    { [type |-> "NoTranscriptFound", msg |-> "No transcripts were found"],
      [type |-> "TranscriptsDisabled", msg |-> "Subtitles are disabled"] }

NoException == [type |-> "none", msg |-> ""]

Responses ==
    { [ok |-> TRUE, transcript |-> t] : t \in Transcripts }
      \cup { [ok |-> FALSE, error |-> x] : x \in Exceptions }

NoStatus == -1   \* the process has not exited

UsageMessage == "Usage: python get_transcript.py <video_id>"

(* --------------------------- pure functions ---------------------------- *)
\* str(e)
Str(x) == x.msg

\* f"Error: {str(e)}"
ErrorLine(x) == "Error: " \o Str(x)

\* the TypeError json.dumps raises for a value it cannot encode
JsonTypeError ==
    [type |-> "TypeError",
     msg |-> "Object of type object is not JSON serializable"]

\* json.dumps(entry): the line, or the TypeError it raises
json_dumps(entry) ==
    IF entry.kind = "dict"
    THEN [ok |-> TRUE,
          line |-> "{\"text\": \"" \o entry.text \o "\", \"start\": "
                   \o ToString(entry.start) \o ", \"duration\": "
                   \o ToString(entry.duration) \o "}"]
    ELSE [ok |-> FALSE, error |-> JsonTypeError]

\* YouTubeTranscriptApi.get_transcript(video_id, languages=langs)
get_transcript_api(vid, langs) == provider[langs]

(* ------------------------------- Init ---------------------------------- *)
Init ==
    /\ argv \in ArgVectors
    /\ provider \in [Requests -> Responses]
    /\ pc = "start"
    /\ video_id = ""
    /\ transcript = <<>>
    /\ e = NoException
    /\ idx = 1
    /\ stdout = <<>>
    /\ stderr = <<>>
    /\ status = NoStatus
    /\ calls = <<>>
    /\ history = <<>>

(* ------------------------------ actions -------------------------------- *)
\* __main__: argument check, lines 20-24
CheckArgs_Lax ==
    /\ pc = "start"
    /\ IF Len(argv) < 2
       THEN /\ stderr' = Append(stderr, UsageMessage)
            /\ status' = 1
            /\ pc' = "exited"
            /\ UNCHANGED video_id
       ELSE /\ video_id' = argv[2]
            /\ pc' = "call_en"
            /\ UNCHANGED <<stderr, status>>
    /\ UNCHANGED <<argv, provider, transcript, e, idx, stdout, calls, history>>

CheckArgs ==
    /\ pc = "start"
    /\ IF Len(argv) # 2
       THEN /\ stderr' = Append(stderr, UsageMessage)
            /\ status' = 1
            /\ pc' = "exited"
            /\ UNCHANGED video_id
       ELSE /\ video_id' = argv[2]
            /\ pc' = "call_en"
            /\ UNCHANGED <<stderr, status>>
    /\ UNCHANGED <<argv, provider, transcript, e, idx, stdout, calls, history>>

\* get_transcript: the primary attempt, lines 6-10
CallPrimary_Truthy ==
    /\ pc = "call_en"
    /\ calls' = Append(calls, <<video_id, EN>>)
    /\ LET r == get_transcript_api(video_id, EN) IN
       IF r.ok /\ r.transcript # <<>>
       THEN /\ transcript' = r.transcript
            /\ idx' = 1
            /\ pc' = "print"
            /\ UNCHANGED e
       ELSE /\ e' = IF r.ok THEN NoException ELSE r.error
            /\ pc' = "call_fallback"
            /\ UNCHANGED <<transcript, idx>>
    /\ UNCHANGED <<argv, provider, video_id, stdout, stderr, status, history>>

CallPrimary ==
    /\ pc = "call_en"
    /\ calls' = Append(calls, <<video_id, EN>>)
    /\ LET r == get_transcript_api(video_id, EN) IN
       IF r.ok
       THEN /\ transcript' = r.transcript
            /\ idx' = 1
            /\ pc' = "print"
            /\ UNCHANGED e
       ELSE /\ e' = r.error
            /\ pc' = "call_fallback"
            /\ UNCHANGED <<transcript, idx>>
    /\ UNCHANGED <<argv, provider, video_id, stdout, stderr, status, history>>

\* get_transcript: the fallback attempt, lines 11-17; when it raises, e is
\* re-raised and caught by __main__, lines 30-32
CallFallback_RaiseSecond ==
    /\ pc = "call_fallback"
    /\ calls' = Append(calls, <<video_id, EN_VARIANTS>>)
    /\ LET r == get_transcript_api(video_id, EN_VARIANTS) IN
       IF r.ok
       THEN /\ transcript' = r.transcript
            /\ idx' = 1
            /\ pc' = "print"
            /\ UNCHANGED <<stderr, status>>
       ELSE /\ stderr' = Append(stderr, ErrorLine(r.error))
            /\ status' = 1
            /\ pc' = "exited"
            /\ UNCHANGED <<transcript, idx>>
    /\ UNCHANGED <<argv, provider, video_id, e, stdout, history>>

CallFallback_KeepError ==
    /\ pc = "call_fallback"
    /\ calls' = Append(calls, <<video_id, EN_VARIANTS>>)
    /\ LET r == get_transcript_api(video_id, EN_VARIANTS) IN
       IF r.ok
       THEN /\ transcript' = r.transcript
            /\ idx' = 1
            /\ pc' = "print"
            /\ stderr' = Append(stderr, ErrorLine(e))
            /\ UNCHANGED status
       ELSE /\ stderr' = Append(stderr, ErrorLine(e))
            /\ status' = 1
            /\ pc' = "exited"
            /\ UNCHANGED <<transcript, idx>>
    /\ UNCHANGED <<argv, provider, video_id, e, stdout, history>>

CallFallback_Retry ==
    /\ pc = "call_fallback"
    /\ calls' = Append(calls, <<video_id, EN_VARIANTS>>)
    /\ LET r == get_transcript_api(video_id, EN_VARIANTS) IN
       IF r.ok
       THEN /\ transcript' = r.transcript
            /\ idx' = 1
            /\ pc' = "print"
       ELSE /\ pc' = "call_en"
            /\ UNCHANGED <<transcript, idx>>
    /\ UNCHANGED <<argv, provider, video_id, e, stdout, stderr, status, history>>

CallFallback ==
    /\ pc = "call_fallback"
    /\ calls' = Append(calls, <<video_id, EN_VARIANTS>>)
    /\ LET r == get_transcript_api(video_id, EN_VARIANTS) IN
       IF r.ok
       THEN /\ transcript' = r.transcript
            /\ idx' = 1
            /\ pc' = "print"
            /\ UNCHANGED <<stderr, status>>
       ELSE /\ stderr' = Append(stderr, ErrorLine(e))
            /\ status' = 1
            /\ pc' = "exited"
            /\ UNCHANGED <<transcript, idx>>
    /\ UNCHANGED <<argv, provider, video_id, e, stdout, history>>

\* __main__: one iteration of the print loop, lines 28-29; a failure of
\* json.dumps is caught by lines 30-32
PrintEntry_SkipFirst ==
    /\ pc = "print"
    /\ idx <= Len(transcript)
    /\ LET d == json_dumps(transcript[idx]) IN
       IF d.ok
       THEN /\ stdout' = IF idx = 1 THEN stdout ELSE Append(stdout, d.line)
            /\ idx' = idx + 1
            /\ UNCHANGED <<pc, stderr, status>>
       ELSE /\ stderr' = Append(stderr, ErrorLine(d.error))
            /\ status' = 1
            /\ pc' = "exited"
            /\ UNCHANGED <<stdout, idx>>
    /\ UNCHANGED <<argv, provider, video_id, transcript, e, calls, history>>

PrintEntry_Status2 ==
    /\ pc = "print"
    /\ idx <= Len(transcript)
    /\ LET d == json_dumps(transcript[idx]) IN
       IF d.ok
       THEN /\ stdout' = Append(stdout, d.line)
            /\ idx' = idx + 1
            /\ UNCHANGED <<pc, stderr, status>>
       ELSE /\ stderr' = Append(stderr, ErrorLine(d.error))
            /\ status' = 2
            /\ pc' = "exited"
            /\ UNCHANGED <<stdout, idx>>
    /\ UNCHANGED <<argv, provider, video_id, transcript, e, calls, history>>

PrintEntry_Silent ==
    /\ pc = "print"
    /\ idx <= Len(transcript)
    /\ LET d == json_dumps(transcript[idx]) IN
       IF d.ok
       THEN /\ stdout' = Append(stdout, d.line)
            /\ idx' = idx + 1
            /\ UNCHANGED <<pc, stderr, status>>
       ELSE /\ status' = 1
            /\ pc' = "exited"
            /\ UNCHANGED <<stdout, idx, stderr>>
    /\ UNCHANGED <<argv, provider, video_id, transcript, e, calls, history>>

PrintEntry ==
    /\ pc = "print"
    /\ idx <= Len(transcript)
    /\ LET d == json_dumps(transcript[idx]) IN
       IF d.ok
       THEN /\ stdout' = Append(stdout, d.line)
            /\ idx' = idx + 1
            /\ UNCHANGED <<pc, stderr, status>>
       ELSE /\ stderr' = Append(stderr, ErrorLine(d.error))
            /\ status' = 1
            /\ pc' = "exited"
            /\ UNCHANGED <<stdout, idx>>
    /\ UNCHANGED <<argv, provider, video_id, transcript, e, calls, history>>

\* __main__: the loop is exhausted and the script ends, lines 28-32
Finish ==
    /\ pc = "print"
    /\ idx > Len(transcript)
    /\ status' = 0
    /\ pc' = "exited"
    /\ UNCHANGED <<argv, provider, video_id, transcript, e, idx,
                   stdout, stderr, calls, history>>

\* what a finished run left behind
Outcome == [stdout |-> stdout, stderr |-> stderr, status |-> status]

\* a new process for the same command line: every name of the module is
\* bound afresh, lines 1-5 and 19
Invoke_Retain ==
    /\ pc = "exited"
    /\ Len(history) + 1 < MaxRuns
    /\ history' = Append(history, Outcome)
    /\ pc' = "start"
    /\ video_id' = ""
    /\ transcript' = <<>>
    /\ e' = NoException
    /\ idx' = 1
    /\ stderr' = <<>>
    /\ status' = NoStatus
    /\ calls' = <<>>
    /\ UNCHANGED <<argv, provider, stdout>>

Invoke ==
    /\ pc = "exited"
    /\ Len(history) + 1 < MaxRuns
    /\ history' = Append(history, Outcome)
    /\ pc' = "start"
    /\ video_id' = ""
    /\ transcript' = <<>>
    /\ e' = NoException
    /\ idx' = 1
    /\ stdout' = <<>>
    /\ stderr' = <<>>
    /\ status' = NoStatus
    /\ calls' = <<>>
    /\ UNCHANGED <<argv, provider>>

\* the steps of one process
Step == CheckArgs \/ CallPrimary \/ CallFallback \/ PrintEntry \/ Finish

Next == Step \/ Invoke

Spec == Init /\ [][Next]_vars

\* the interpreter runs a started process to its end
LiveSpec == Init /\ [][Next]_vars /\ WF_vars(Step)

(* ------------------------ vocabulary of the claims --------------------- *)
Exited == pc = "exited"

OneArg == Len(argv) = 2

Primary == provider[EN]

Fallback == provider[EN_VARIANTS]

AllSerializable(t) == \A i \in 1..Len(t) : json_dumps(t[i]).ok

\* stdout holds exactly the serialisations of the entries of t, in order
PrintedExactly(t) ==
    /\ Len(stdout) = Len(t)
    /\ \A i \in 1..Len(t) :
          /\ json_dumps(t[i]).ok
          /\ stdout[i] = json_dumps(t[i]).line

(* ------------------------------- claims -------------------------------- *)
\* C1: when the request for ['en'] and the request for ['en-US','en-GB']
\* both fail, the program exits 1 and stderr is "Error: " followed by the
\* message of the primary error, never that of the fallback error.
C1_PrimaryErrorSurfaced ==
    (Exited /\ OneArg /\ ~Primary.ok /\ ~Fallback.ok) =>
        /\ status = 1
        /\ stderr = << "Error: " \o Primary.error.msg >>
        /\ (Fallback.error.msg # Primary.error.msg =>
               \A i \in 1..Len(stderr) :
                   stderr[i] # "Error: " \o Fallback.error.msg)

C1_Witness ==
    /\ Exited /\ OneArg /\ ~Primary.ok /\ ~Fallback.ok
    /\ Primary.error # Fallback.error
    /\ Len(calls) = 2

C4_UsageOnWrongArgCount ==
    (~OneArg) =>
        /\ calls = <<>>
        /\ stdout = <<>>
        /\ pc \in {"start", "exited"}
        /\ (Exited => status = 1 /\ stderr = <<UsageMessage>>)

C4_Witness == Exited /\ Len(argv) > 2 /\ stderr = <<UsageMessage>>

\* C5: in every invocation that ends with exit status 1, stdout is empty.
C5_NoPartialOutput == (Exited /\ status = 1) => stdout = <<>>

\* C6: a terminated invocation has exit status 0 or 1; it is 0 exactly when
\* there was one argument, one of the two attempts returned a transcript and
\* every entry of it was printed, and 1 otherwise.
C6_ExitStatus ==
    Exited =>
        /\ status \in {0, 1}
        /\ (status = 0) <=>
              /\ OneArg
              /\ Primary.ok \/ Fallback.ok
              /\ LET t == IF Primary.ok THEN Primary.transcript
                          ELSE Fallback.transcript
                 IN  AllSerializable(t) /\ Len(stdout) = Len(t)

C6_Witness ==
    /\ Exited /\ status = 1 /\ OneArg
    /\ idx <= Len(transcript)
    /\ ~json_dumps(transcript[idx]).ok

C8_CallOrder ==
    /\ Len(calls) <= 2
    /\ Len(calls) >= 1 => OneArg /\ calls[1] = <<argv[2], EN>>
    /\ Len(calls) = 2 => calls[2] = <<argv[2], EN_VARIANTS>> /\ ~Primary.ok
    /\ (Exited /\ OneArg) =>
          /\ Len(calls) >= 1
          /\ ~Primary.ok => Len(calls) = 2
    /\ (Exited /\ OneArg /\ Primary.ok /\ Primary.transcript = <<>>) =>
          /\ calls = << <<argv[2], EN>> >>
          /\ status = 0
          /\ stdout = <<>>

C8_Witness ==
    /\ Exited /\ OneArg /\ Primary.ok /\ Primary.transcript = <<>>
    /\ Len(calls) = 1

\* C9: every started invocation eventually exits, having made at most two
\* provider calls and at most one print per entry of the transcript.
C9_Terminates ==
    /\ [](pc # "exited" => <>(pc = "exited"))
    /\ [](/\ Len(calls) <= 2
          /\ Len(stdout) <= Len(transcript)
          /\ idx <= Len(transcript) + 1)

C9_Witness ==
    /\ Exited /\ status = 0
    /\ Len(calls) = 2
    /\ Len(stdout) >= 2

\* C10: while the process runs stderr is empty; once it has exited stderr is
\* non-empty exactly when the status is 1, and then it is one message: the
\* usage message on a wrong argument count, one "Error: <message>" line
\* otherwise.
C10_StderrMatchesStatus ==
    /\ ~Exited => stderr = <<>>
    /\ Exited =>
          /\ (stderr # <<>>) <=> (status = 1)
          /\ status = 0 => stderr = <<>>
          /\ status = 1 =>
                /\ Len(stderr) = 1
                /\ IF OneArg
                   THEN /\ stderr[1] # UsageMessage
                        /\ \E x \in Exceptions \cup {JsonTypeError} :
                              stderr[1] = "Error: " \o x.msg
                   ELSE stderr[1] = UsageMessage

C10_Witness ==
    /\ Exited /\ status = 1 /\ OneArg
    /\ Primary.ok
    /\ stderr = << "Error: " \o JsonTypeError.msg >>

====
